---- MODULE Spec2Model ----
(***************************************************************************)
(* Video ingestion pipeline of the tubely file server: handlerUploadVideo  *)
(* with its helpers mimeCheckVideo, mimeToExt, getVideoAspectRatio,        *)
(* processVideoForFastStart and dbVideoToSignedVideo.                      *)
(*                                                                         *)
(* Strings are sequences of atoms.  An atom is a run of characters that    *)
(* contains none of the separators the code splits on ("/" ";" "," " "),   *)
(* or is exactly one such separator.  strings.Split, strings.ToLower,      *)
(* strings.TrimSpace and fmt.Sprintf therefore act atom by atom.           *)
(***************************************************************************)
EXTENDS Integers, Sequences, FiniteSets, TLC

VARIABLES
    build,      \* which handlerUploadVideo serves: "faststart" | "direct"
    db,         \* metadata store: video id -> database.Video row
    s3,         \* object store: set of [Bucket, Key, Body, ContentType]
    disk,       \* local files: set of [name, size]
    now,        \* time.Now()
    pc,         \* per request: position in handlerUploadVideo
    req,        \* per request: what the client sent
    loc,        \* per request: the handler's local variables
    resp,       \* per request: responses written to http.ResponseWriter
    trace,      \* per request: stages executed so far, with their outcome
    removed,    \* per request: os.Remove calls that deleted the staged file
    ratioIn,    \* getVideoAspectRatio on its own: the probe output
    ratioOut,   \* getVideoAspectRatio on its own: what it returned
    tpc,        \* thumbnail request: position in handlerUploadThumbnail
    treq,       \* thumbnail request: what the client sent
    tloc,       \* thumbnail request: the handler's local variables
    tresp       \* thumbnail request: responses written

thumbVars == <<tpc, treq, tloc, tresp>>

vars == <<build, db, s3, disk, now, pc, req, loc, resp, trace, removed,
          ratioIn, ratioOut, thumbVars>>

(***************************************************************************)
(* Bounds                                                                  *)
(***************************************************************************)
MaxRequests == 1
MaxDim == 24

(***************************************************************************)
(* String helpers (Go standard library, at atom granularity)               *)
(***************************************************************************)
RECURSIVE IndexOf(_, _, _)
\* first position >= i of atom sep in s, 0 when absent (strings.Index)
IndexOf(s, sep, i) ==
    IF i > Len(s) THEN 0
    ELSE IF s[i] = sep THEN i
    ELSE IndexOf(s, sep, i + 1)

RECURSIVE Split(_, _)
\* strings.Split(s, sep): the parts between the separators; one part when
\* sep does not occur, also for the empty string
Split(s, sep) ==
    LET i == IndexOf(s, sep, 1) IN
    IF i = 0 THEN <<s>>
    ELSE <<SubSeq(s, 1, i - 1)>> \o Split(SubSeq(s, i + 1, Len(s)), sep)

LowerAtom(a) ==
    CASE a = "VIDEO" -> "video"
      [] a = "MP4"   -> "mp4"
      [] OTHER       -> a

\* strings.ToLower
ToLower(s) == [i \in 1..Len(s) |-> LowerAtom(s[i])]

RECURSIVE TrimLeft(_)
TrimLeft(s) == IF s # <<>> /\ s[1] = " " THEN TrimLeft(Tail(s)) ELSE s

RECURSIVE TrimRight(_)
TrimRight(s) ==
    IF s # <<>> /\ s[Len(s)] = " " THEN TrimRight(SubSeq(s, 1, Len(s) - 1))
    ELSE s

\* strings.TrimSpace
TrimSpace(s) == TrimRight(TrimLeft(s))

\* mime: a token is a non-empty run of non-separator characters
Separators == {"/", ";", ",", " ", "="}
IsToken(a) == a \notin Separators /\ a \notin {"\"avc1", "mp4a\""}

\* mime.checkMediaTypeDisposition
checkMediaTypeDisposition(s) ==
    IF s = <<>> \/ ~IsToken(s[1]) THEN FALSE
    ELSE IF Len(s) = 1 THEN TRUE
    ELSE IF s[2] # "/" THEN FALSE
    ELSE IF Len(s) < 3 \/ ~IsToken(s[3]) THEN FALSE
    ELSE Len(s) = 3

\* attribute=value forms consumeMediaParam accepts: a bare token value, and
\* a quoted value (which may hold a comma)
ParamForms == { <<"codecs", "=", "avc1">>,
                <<"codecs", "=", "\"avc1", ",", "mp4a\"">> }

IsPrefix(p, s) == Len(p) <= Len(s) /\ SubSeq(s, 1, Len(p)) = p

RECURSIVE consumeParams(_)
\* the parameter loop of mime.ParseMediaType: TRUE when every parameter is
\* well formed (a trailing ";" is ignored)
consumeParams(v) ==
    LET t == TrimLeft(v) IN
    IF t = <<>> THEN TRUE
    ELSE IF t[1] # ";" THEN FALSE
    ELSE LET rest == TrimLeft(Tail(t)) IN
         IF rest = <<>> THEN TRUE
         ELSE \E p \in ParamForms :
                 /\ IsPrefix(p, rest)
                 /\ consumeParams(SubSeq(rest, Len(p) + 1, Len(rest)))

\* mime.ParseMediaType(v): the lower-cased, trimmed type/subtype before the
\* first ";" and whether the value parsed
ParseMediaType(v) ==
    LET i    == IndexOf(v, ";", 1)
        base == IF i = 0 THEN v ELSE SubSeq(v, 1, i - 1)
        rest == IF i = 0 THEN <<>> ELSE SubSeq(v, i, Len(v))
        m    == TrimSpace(ToLower(base))
    IN  IF checkMediaTypeDisposition(m) /\ consumeParams(rest)
        THEN [m |-> m, err |-> FALSE]
        ELSE [m |-> <<>>, err |-> TRUE]

(***************************************************************************)
(* Helpers of the upload handlers                                          *)
(***************************************************************************)
\* mimeCheckVideo that looks at the top-level type only
mimeCheckVideo_anyVideo(mimeType) ==
    LET p == ParseMediaType(mimeType) IN
    IF p.err THEN FALSE
    ELSE p.m[1] = "video"

\* mimeCheckVideo: TRUE when the error is nil
mimeCheckVideo(mimeType) ==
    LET p == ParseMediaType(mimeType) IN
    IF p.err THEN FALSE
    ELSE p.m = <<"video", "/", "mp4">>

\* mimeToExt
mimeToExt(mimeType) ==
    LET parts == Split(mimeType, "/") IN parts[Len(parts)]

Abs(x) == IF x < 0 THEN -x ELSE x

RECURSIVE GcdLoop(_, _)
\* for b != 0 { a, b = b, a%b }; g := a
GcdLoop(a, b) == IF b # 0 THEN GcdLoop(b, a % b) ELSE a

\* math.Abs(w/h - n/d) < 0.02 in float64, for integers w, h >= 0.
\* h = 0 makes the quotient +Inf or NaN and the comparison false.  On every
\* other pair the float64 result is the exact comparison
\* |w/h - n/d| < 1/50, except where the exact distance is 1/50: there
\* float64 yields 0.019999999999999796 for w/h = 791/450 (below 16/9) and
\* 0.020000000000000018 for 809/450, 233/400 and 217/400.
Float64Near(w, h, n, d) ==
    /\ h # 0
    /\ \/ 50 * Abs(d * w - n * h) < d * h
       \/ n = 16 /\ d = 9 /\ 450 * w = 791 * h

\* fmt.Sprintf("%d:%d", a, b)
SprintfRatio(a, b) == <<a, ":", b>>

\* getVideoAspectRatio, from the outcome of the ffprobe run:
\*   [kind |-> "exit"]   ffprobe exited non-zero
\*   [kind |-> "json"]   output did not unmarshal
\*   [kind |-> "ok", streams |-> <<[Width, Height], ...>>]
getVideoAspectRatio(probe) ==
    IF probe.kind = "exit" \/ probe.kind = "json"
    THEN [result |-> <<>>, err |-> TRUE, panic |-> FALSE]
    ELSE IF Len(probe.streams) > 0
    THEN LET w == probe.streams[1].Width
             h == probe.streams[1].Height
         IN  IF Float64Near(w, h, 16, 9)
             THEN [result |-> <<16, ":", 9>>, err |-> FALSE, panic |-> FALSE]
             ELSE IF Float64Near(w, h, 9, 16)
             THEN [result |-> <<9, ":", 16>>, err |-> FALSE, panic |-> FALSE]
             ELSE LET g == GcdLoop(w, h) IN
                  IF g = 0  \* integer divide by zero
                  THEN [result |-> <<>>, err |-> FALSE, panic |-> TRUE]
                  ELSE [result |-> SprintfRatio(w \div g, h \div g),
                        err |-> FALSE, panic |-> FALSE]
    ELSE [result |-> <<>>, err |-> FALSE, panic |-> FALSE]

(***************************************************************************)
(* Configuration and the world the handler runs in                         *)
(***************************************************************************)
s3Bucket == "tubely"
s3Region == "eu-central-1"

NilUUID == "00000000-0000-0000-0000-000000000000"
Users == {"u1", "u2"}
KnownVideo == "v1"
\* last path element of the request URL: a stored id, an id the store does
\* not know, and text that is not a UUID
VideoIDs == {KnownVideo, "v2", "not-a-uuid"}

\* *string
Nil == [nil |-> TRUE, s |-> <<>>]
Ptr(s) == [nil |-> FALSE, s |-> s]

\* database.Video{}
ZeroVideo == [ID |-> NilUUID, UserID |-> NilUUID, VideoURL |-> Nil,
              ThumbnailURL |-> Nil, UpdatedAt |-> 0]

\* declared content types a client may send
MediaTypes == {
    <<"video", "/", "mp4">>,
    <<"VIDEO", "/", "MP4">>,
    <<"video", "/", "mp4", ";", " ", "codecs", "=", "\"avc1", ",", "mp4a\"">>,
    <<"video", "/", "mp4", ";", "=">>,
    <<"video", "/", "webm">>,
    <<>> }

\* what ffprobe may do on the staged file
ProbeOutcomes == {
    [kind |-> "exit", streams |-> <<>>],
    [kind |-> "ok", streams |-> <<>>],
    [kind |-> "ok", streams |-> <<[Width |-> 1920, Height |-> 1080]>>],
    [kind |-> "ok", streams |-> <<[Width |-> 1080, Height |-> 1920]>>],
    [kind |-> "ok", streams |-> <<[Width |-> 1000, Height |-> 500]>>],
    [kind |-> "ok", streams |-> <<[Width |-> 0, Height |-> 0]>>] }

\* what ffmpeg may do: exit status and the output file it leaves
FfmpegOutcomes == [exit : {0, 1}, out : {"none", "empty", "data"}]

Reqs == DOMAIN pc

\* os.CreateTemp("", "tubely-temp-upload.mp4"): a fresh name per call
TempName(r) == <<"/tmp/tubely-temp-upload.mp4", ToString(r)>>
\* a generator that hands every request the same token
RandFileName_fixed(r) == "tok"
\* base64.RawURLEncoding of 32 random bytes: fresh per request, no "/"
RandFileName(r) == "tok" \o ToString(r)

Exists(d, n) == \E f \in d : f.name = n
RemoveFile(d, n) == {f \in d : f.name # n}
WriteFile(d, n, size) == RemoveFile(d, n) \cup {[name |-> n, size |-> size]}
SizeOf(d, n) == (CHOOSE f \in d : f.name = n).size

\* processVideoForFastStart without the check of the output size
processVideoForFastStart_noSizeCheck(filePath, o, d) ==
    LET workFile == filePath \o <<".processing">>
        d1 == CASE o.out = "none"  -> d
                [] o.out = "empty" -> WriteFile(d, workFile, 0)
                [] o.out = "data"  -> WriteFile(d, workFile, 1)
    IN  IF o.exit # 0
        THEN [path |-> <<>>, err |-> TRUE, disk |-> RemoveFile(d1, workFile)]
        ELSE IF ~Exists(d1, workFile)
        THEN [path |-> <<>>, err |-> TRUE, disk |-> d1]
        ELSE [path |-> workFile, err |-> FALSE, disk |-> d1]

\* processVideoForFastStart(filePath) on disk d when ffmpeg behaves as o
processVideoForFastStart(filePath, o, d) ==
    LET workFile == filePath \o <<".processing">>
        d1 == CASE o.out = "none"  -> d
                [] o.out = "empty" -> WriteFile(d, workFile, 0)
                [] o.out = "data"  -> WriteFile(d, workFile, 1)
    IN  IF o.exit # 0
        THEN [path |-> <<>>, err |-> TRUE, disk |-> RemoveFile(d1, workFile)]
        ELSE IF ~Exists(d1, workFile)
        THEN [path |-> <<>>, err |-> TRUE, disk |-> d1]
        ELSE IF SizeOf(d1, workFile) = 0
        THEN [path |-> <<>>, err |-> TRUE, disk |-> RemoveFile(d1, workFile)]
        ELSE [path |-> workFile, err |-> FALSE, disk |-> d1]

\* generatePresignedURL
generatePresignedURL(bucket, key) == <<"signed:">> \o bucket \o <<"?">> \o key

\* dbVideoToSignedVideo; presignOK: PresignGetObject returned no error
dbVideoToSignedVideo(video, presignOK) ==
    IF video.VideoURL.nil
    THEN [video |-> ZeroVideo, err |-> TRUE, parts |-> <<>>]
    ELSE LET urlParts == Split(video.VideoURL.s, ",") IN
         IF Len(urlParts) # 2
         THEN [video |-> ZeroVideo, err |-> TRUE, parts |-> urlParts]
         ELSE IF ~presignOK
         THEN [video |-> ZeroVideo, err |-> TRUE, parts |-> urlParts]
         ELSE [video |-> [video EXCEPT !.VideoURL =
                   Ptr(generatePresignedURL(urlParts[1], urlParts[2]))],
               err |-> FALSE, parts |-> urlParts]

\* the switch on aspectRatio that builds fileKey
FileKey(aspectRatio, randFileName, mediaType) ==
    LET prefix == CASE aspectRatio = <<16, ":", 9>> -> "landscape"
                    [] aspectRatio = <<9, ":", 16>> -> "portrait"
                    [] OTHER -> "other"
    IN  <<prefix, "/", randFileName, ".">> \o mimeToExt(mediaType)

\* the locator stored in VideoURL
NewURL(fileKey) ==
    IF build = "faststart"
    THEN <<s3Bucket, ",">> \o fileKey
    ELSE <<"https://", s3Bucket, ".s3.", s3Region, ".amazonaws.com/">>
         \o fileKey

\* database.Client.GetVideo
GetVideo(id) ==
    IF id \in DOMAIN db THEN [video |-> db[id], err |-> FALSE]
    ELSE [video |-> ZeroVideo, err |-> TRUE]

\* database.Client.UpdateVideo, when the store accepts the write
UpdateVideo(video) == [db EXCEPT ![video.ID] = video]

\* respondWithError / respondWithJSON: one more write to the ResponseWriter
Respond(w, status, body) == Append(w, [status |-> status, body |-> body])

(***************************************************************************)
(* handlerUploadVideo, one action per stage.  Two versions of the handler  *)
(* exist: "faststart" remuxes and stores a "bucket,key" locator, "direct"  *)
(* publishes the staged file and stores a full URL.                        *)
(***************************************************************************)
ZeroLoc == [userID |-> NilUUID, video |-> ZeroVideo, mediaType |-> <<>>,
            tempFile |-> Nil, defers |-> <<>>, randFileName |-> "",
            aspectRatio |-> <<>>, fileKey |-> <<>>, fsVideo |-> <<>>,
            panicked |-> FALSE, urlParts |-> <<>>,
            ffmpeg |-> [exit |-> 0, out |-> "none"]]

Requests == [token : {"missing", "invalid"} \cup Users,
             videoID : VideoIDs,
             body : {"fits", "too-large", "no-field"},
             mediaType : MediaTypes]

Ran(r, stage, ok) == Append(trace[r], [stage |-> stage, ok |-> ok])

\* a request arrives; requests are served one after the other
Begin(r) ==
    /\ pc[r] = "idle"
    /\ \A q \in Reqs : q < r => pc[q] = "done"
    /\ \E q \in Requests : req' = [req EXCEPT ![r] = q]
    /\ pc' = [pc EXCEPT ![r] = "auth"]
    /\ UNCHANGED <<build, db, s3, disk, now, loc, resp, trace, removed,
                   ratioIn, ratioOut, thumbVars>>

\* auth.GetBearerToken, auth.ValidateJWT
Authenticate(r) ==
    /\ pc[r] = "auth"
    /\ IF req[r].token \in {"missing", "invalid"}
       THEN /\ resp' = [resp EXCEPT ![r] = Respond(@, 401, "error")]
            /\ pc' = [pc EXCEPT ![r] = "return"]
            /\ loc' = loc
       ELSE /\ loc' = [loc EXCEPT ![r].userID = req[r].token]
            /\ pc' = [pc EXCEPT ![r] = "lookup"]
            /\ resp' = resp
    /\ UNCHANGED <<build, db, s3, disk, now, req, trace, removed,
                   ratioIn, ratioOut, thumbVars>>

\* Lookup without the owner check
Lookup_noOwnerCheck(r) ==
    /\ pc[r] = "lookup"
    /\ IF req[r].videoID = "not-a-uuid"
       THEN /\ loc' = [loc EXCEPT ![r].panicked = TRUE]
            /\ pc' = [pc EXCEPT ![r] = "return"]
            /\ resp' = resp
       ELSE LET g == GetVideo(req[r].videoID) IN
            /\ loc' = [loc EXCEPT ![r].video = g.video]
            /\ IF g.err
               THEN /\ resp' = [resp EXCEPT ![r] = Respond(@, 404, "error")]
                    /\ pc' = [pc EXCEPT ![r] = "return"]
               ELSE /\ resp' = resp
                    /\ pc' = [pc EXCEPT ![r] = "form"]
    /\ UNCHANGED <<build, db, s3, disk, now, req, trace, removed,
                   ratioIn, ratioOut, thumbVars>>

\* uuid.MustParse, cfg.db.GetVideo, the owner check, then the error check
Lookup(r) ==
    /\ pc[r] = "lookup"
    /\ IF req[r].videoID = "not-a-uuid"
       THEN /\ loc' = [loc EXCEPT ![r].panicked = TRUE]
            /\ pc' = [pc EXCEPT ![r] = "return"]
            /\ resp' = resp
       ELSE LET g == GetVideo(req[r].videoID) IN
            /\ loc' = [loc EXCEPT ![r].video = g.video]
            /\ IF g.video.UserID # loc[r].userID
               THEN /\ resp' = [resp EXCEPT ![r] = Respond(@, 401, "error")]
                    /\ pc' = [pc EXCEPT ![r] = "return"]
               ELSE IF g.err
               THEN /\ resp' = [resp EXCEPT ![r] = Respond(@, 404, "error")]
                    /\ pc' = [pc EXCEPT ![r] = "return"]
               ELSE /\ resp' = resp
                    /\ pc' = [pc EXCEPT ![r] = "form"]
    /\ UNCHANGED <<build, db, s3, disk, now, req, trace, removed,
                   ratioIn, ratioOut, thumbVars>>

\* ParseForm that goes on when r.FormFile fails
ParseForm_ignoreFormError(r) ==
    /\ pc[r] = "form"
    /\ IF ~mimeCheckVideo(req[r].mediaType)
       THEN /\ resp' = [resp EXCEPT ![r] = Respond(@, 400, "error")]
            /\ pc' = [pc EXCEPT ![r] = "return"]
            /\ loc' = [loc EXCEPT ![r].mediaType = req[r].mediaType,
                                  ![r].defers = <<"file.Close">> \o @]
       ELSE /\ resp' = resp
            /\ pc' = [pc EXCEPT ![r] = "stage"]
            /\ loc' = [loc EXCEPT ![r].mediaType = req[r].mediaType,
                                  ![r].defers = <<"file.Close">> \o @]
    /\ UNCHANGED <<build, db, s3, disk, now, req, trace, removed,
                   ratioIn, ratioOut, thumbVars>>

\* r.FormFile("video") behind http.MaxBytesReader, then mimeCheckVideo
ParseForm(r) ==
    /\ pc[r] = "form"
    /\ IF req[r].body # "fits"
       THEN /\ resp' = [resp EXCEPT ![r] = Respond(@, 500, "error")]
            /\ pc' = [pc EXCEPT ![r] = "return"]
            /\ loc' = loc
       ELSE IF ~mimeCheckVideo(req[r].mediaType)
       THEN /\ resp' = [resp EXCEPT ![r] = Respond(@, 400, "error")]
            /\ pc' = [pc EXCEPT ![r] = "return"]
            /\ loc' = [loc EXCEPT ![r].mediaType = req[r].mediaType,
                                  ![r].defers = <<"file.Close">> \o @]
       ELSE /\ resp' = resp
            /\ pc' = [pc EXCEPT ![r] = "stage"]
            /\ loc' = [loc EXCEPT ![r].mediaType = req[r].mediaType,
                                  ![r].defers = <<"file.Close">> \o @]
    /\ UNCHANGED <<build, db, s3, disk, now, req, trace, removed,
                   ratioIn, ratioOut, thumbVars>>

\* os.CreateTemp, defer os.Remove, io.Copy (its error is dropped), rand.Read
Stage(r) ==
    /\ pc[r] = "stage"
    /\ \E created \in BOOLEAN, copied \in BOOLEAN :
         IF ~created
         THEN \* tempFile is nil: tempFile.Name() faults
              /\ loc' = [loc EXCEPT ![r].panicked = TRUE]
              /\ pc' = [pc EXCEPT ![r] = "return"]
              /\ UNCHANGED <<disk, trace>>
         ELSE /\ disk' = WriteFile(disk, TempName(r), IF copied THEN 1 ELSE 0)
              /\ loc' = [loc EXCEPT
                    ![r].tempFile = Ptr(TempName(r)),
                    ![r].defers = (IF build = "direct"
                                   THEN <<"tempFile.Close", "os.Remove">>
                                   ELSE <<"os.Remove">>) \o @,
                    ![r].randFileName = RandFileName(r)]
              /\ trace' = [trace EXCEPT ![r] = Ran(r, "copy", copied)]
              /\ pc' = [pc EXCEPT ![r] = "probe"]
    /\ UNCHANGED <<build, db, s3, now, req, resp, removed, ratioIn, ratioOut, thumbVars>>

\* getVideoAspectRatio and the switch that builds fileKey
Probe(r) ==
    /\ pc[r] = "probe"
    /\ \E o \in ProbeOutcomes :
         LET a == getVideoAspectRatio(o)
             key == FileKey(a.result, loc[r].randFileName, loc[r].mediaType)
         IN
         /\ trace' = [trace EXCEPT ![r] = Ran(r, "probe", ~a.err /\ ~a.panic)]
         /\ IF a.panic
            THEN /\ loc' = [loc EXCEPT ![r].panicked = TRUE]
                 /\ pc' = [pc EXCEPT ![r] = "return"]
                 /\ resp' = resp
            ELSE IF a.err /\ build = "faststart"
            THEN /\ resp' = [resp EXCEPT ![r] = Respond(@, 500, "error")]
                 /\ pc' = [pc EXCEPT ![r] = "return"]
                 /\ loc' = loc
            ELSE \* the direct handler responds and carries on
                 /\ resp' = IF a.err
                            THEN [resp EXCEPT ![r] = Respond(@, 500, "error")]
                            ELSE resp
                 /\ loc' = [loc EXCEPT ![r].aspectRatio = a.result,
                                       ![r].fileKey = key]
                 /\ pc' = [pc EXCEPT ![r] =
                        IF build = "faststart" THEN "remux" ELSE "put"]
    /\ UNCHANGED <<build, db, s3, disk, now, req, removed, ratioIn, ratioOut, thumbVars>>

\* tempFile.Sync, tempFile.Close, processVideoForFastStart
Remux(r) ==
    /\ pc[r] = "remux"
    /\ \E o \in FfmpegOutcomes :
         LET p == processVideoForFastStart(loc[r].tempFile.s, o, disk) IN
         /\ disk' = p.disk
         /\ trace' = [trace EXCEPT ![r] = Ran(r, "remux", ~p.err)]
         /\ IF p.err
            THEN /\ resp' = [resp EXCEPT ![r] = Respond(@, 500, "error")]
                 /\ pc' = [pc EXCEPT ![r] = "return"]
                 /\ loc' = [loc EXCEPT ![r].ffmpeg = o]
            ELSE /\ loc' = [loc EXCEPT ![r].fsVideo = p.path,
                                       ![r].ffmpeg = o]
                 /\ pc' = [pc EXCEPT ![r] = "open"]
                 /\ resp' = resp
    /\ UNCHANGED <<build, db, s3, now, req, removed, ratioIn, ratioOut, thumbVars>>

\* os.Open(fsVideo)
Open(r) ==
    /\ pc[r] = "open"
    /\ \E opened \in BOOLEAN :
         IF opened
         THEN /\ loc' = [loc EXCEPT ![r].defers = <<"f.Close">> \o @]
              /\ pc' = [pc EXCEPT ![r] = "put"]
              /\ resp' = resp
         ELSE /\ resp' = [resp EXCEPT ![r] = Respond(@, 500, "error")]
              /\ pc' = [pc EXCEPT ![r] = "return"]
              /\ loc' = loc
    /\ UNCHANGED <<build, db, s3, disk, now, req, trace, removed,
                   ratioIn, ratioOut, thumbVars>>

\* PutObject whose error branch does not return
PutObject_noReturn(r) ==
    /\ pc[r] = "put"
    /\ \E stored \in BOOLEAN :
         /\ trace' = [trace EXCEPT ![r] = Ran(r, "put", stored)]
         /\ pc' = [pc EXCEPT ![r] = "update"]
         /\ IF stored
            THEN /\ s3' = {o \in s3 : o.Key # loc[r].fileKey} \cup
                       {[Bucket |-> s3Bucket, Key |-> loc[r].fileKey,
                         Body |-> IF build = "faststart" THEN loc[r].fsVideo
                                  ELSE loc[r].tempFile.s,
                         ContentType |-> loc[r].mediaType]}
                 /\ resp' = resp
            ELSE /\ resp' = [resp EXCEPT ![r] = Respond(@, 500, "error")]
                 /\ s3' = s3
    /\ UNCHANGED <<build, db, disk, now, req, loc, removed, ratioIn, ratioOut, thumbVars>>

\* cfg.s3Client.PutObject
PutObject(r) ==
    /\ pc[r] = "put"
    /\ \E stored \in BOOLEAN :
         /\ trace' = [trace EXCEPT ![r] = Ran(r, "put", stored)]
         /\ IF stored
            THEN /\ s3' = {o \in s3 : o.Key # loc[r].fileKey} \cup
                       {[Bucket |-> s3Bucket, Key |-> loc[r].fileKey,
                         Body |-> IF build = "faststart" THEN loc[r].fsVideo
                                  ELSE loc[r].tempFile.s,
                         ContentType |-> loc[r].mediaType]}
                 /\ pc' = [pc EXCEPT ![r] = "update"]
                 /\ resp' = resp
            ELSE /\ resp' = [resp EXCEPT ![r] = Respond(@, 500, "error")]
                 /\ pc' = [pc EXCEPT ![r] = "return"]
                 /\ s3' = s3
    /\ UNCHANGED <<build, db, disk, now, req, loc, removed, ratioIn, ratioOut, thumbVars>>

\* newURL, video.UpdatedAt, video.VideoURL, cfg.db.UpdateVideo
Update(r) ==
    /\ pc[r] = "update"
    /\ \E written \in BOOLEAN :
         LET video == [loc[r].video EXCEPT
                          !.UpdatedAt = now,
                          !.VideoURL = Ptr(NewURL(loc[r].fileKey))]
         IN
         /\ loc' = [loc EXCEPT ![r].video = video]
         /\ now' = now + 1
         /\ trace' = [trace EXCEPT ![r] = Ran(r, "update", written)]
         /\ IF written
            THEN /\ db' = UpdateVideo(video)
                 /\ pc' = [pc EXCEPT ![r] = "respond"]
                 /\ resp' = resp
            ELSE /\ db' = db
                 /\ resp' = [resp EXCEPT ![r] = Respond(@, 500, "error")]
                 /\ pc' = [pc EXCEPT ![r] =
                        IF build = "faststart" THEN "return" ELSE "respond"]
    /\ UNCHANGED <<build, s3, disk, req, removed, ratioIn, ratioOut, thumbVars>>

\* faststart: dbVideoToSignedVideo, then respondWithJSON in either case;
\* direct: respondWithJSON(w, http.StatusOK, "")
Answer(r) ==
    /\ pc[r] = "respond"
    /\ \E presignOK \in BOOLEAN :
         IF build = "faststart"
         THEN LET sv == dbVideoToSignedVideo(loc[r].video, presignOK) IN
              /\ loc' = [loc EXCEPT ![r].urlParts = sv.parts]
              /\ resp' = [resp EXCEPT ![r] =
                     Respond(IF sv.err THEN Respond(@, 500, "error") ELSE @,
                             200, sv.video)]
         ELSE /\ presignOK
              /\ loc' = loc
              /\ resp' = [resp EXCEPT ![r] = Respond(@, 200, "")]
    /\ pc' = [pc EXCEPT ![r] = "return"]
    /\ UNCHANGED <<build, db, s3, disk, now, req, trace, removed,
                   ratioIn, ratioOut, thumbVars>>

\* Return that removes the staged file only at the end of a successful run,
\* as a plain call would instead of a deferred one
Return_removeOnSuccess(r) ==
    /\ pc[r] = "return"
    /\ IF /\ \E i \in 1..Len(loc[r].defers) : loc[r].defers[i] = "os.Remove"
          /\ resp[r] # <<>> /\ resp[r][Len(resp[r])].status = 200
       THEN /\ disk' = RemoveFile(disk, loc[r].tempFile.s)
            /\ removed' = [removed EXCEPT ![r] =
                   IF Exists(disk, loc[r].tempFile.s) THEN @ + 1 ELSE @]
       ELSE UNCHANGED <<disk, removed>>
    /\ loc' = [loc EXCEPT ![r].defers = <<>>]
    /\ pc' = [pc EXCEPT ![r] = "done"]
    /\ UNCHANGED <<build, db, s3, now, req, resp, trace, ratioIn, ratioOut, thumbVars>>

\* the deferred calls, run when the handler returns or unwinds from a fault
Return(r) ==
    /\ pc[r] = "return"
    /\ IF \E i \in 1..Len(loc[r].defers) : loc[r].defers[i] = "os.Remove"
       THEN /\ disk' = RemoveFile(disk, loc[r].tempFile.s)
            /\ removed' = [removed EXCEPT ![r] =
                   IF Exists(disk, loc[r].tempFile.s) THEN @ + 1 ELSE @]
       ELSE UNCHANGED <<disk, removed>>
    /\ loc' = [loc EXCEPT ![r].defers = <<>>]
    /\ pc' = [pc EXCEPT ![r] = "done"]
    /\ UNCHANGED <<build, db, s3, now, req, resp, trace, ratioIn, ratioOut, thumbVars>>

(***************************************************************************)
(* The system                                                              *)
(***************************************************************************)
\* locals of handlerUploadThumbnail
ZeroThumbLoc == [userID |-> NilUUID, video |-> ZeroVideo, mediaType |-> <<>>,
                 assetPath |-> <<>>, created |-> FALSE]

InitialVideo == [ID |-> KnownVideo, UserID |-> "u1", VideoURL |-> Nil,
                 ThumbnailURL |-> Nil, UpdatedAt |-> 0]

\* the object of an upload that finished before the first modelled request
EarlierKey == <<"landscape", "/", "tok0", ".", "mp4">>
EarlierObject == [Bucket |-> s3Bucket, Key |-> EarlierKey,
                  Body |-> <<"/tmp/tubely-temp-upload.mp4", "0">>,
                  ContentType |-> <<"video", "/", "mp4">>]

\* the state before any request, with room for n video uploads
InitWith(n) ==
    /\ build \in {"faststart", "direct"}
    /\ \E earlier \in BOOLEAN :
         IF earlier
         THEN /\ db = [v \in {KnownVideo} |->
                        [InitialVideo EXCEPT !.VideoURL = Ptr(NewURL(EarlierKey))]]
              /\ s3 = {EarlierObject}
         ELSE /\ db = [v \in {KnownVideo} |-> InitialVideo]
              /\ s3 = {}
    /\ disk = {}
    /\ now = 1
    /\ pc = [r \in 1..n |-> "idle"]
    /\ req = [r \in 1..n |->
                [token |-> "missing", videoID |-> KnownVideo,
                 body |-> "fits", mediaType |-> <<>>]]
    /\ loc = [r \in 1..n |-> ZeroLoc]
    /\ resp = [r \in 1..n |-> <<>>]
    /\ trace = [r \in 1..n |-> <<>>]
    /\ removed = [r \in 1..n |-> 0]
    /\ tpc = "idle"
    /\ treq = [token |-> "missing", videoID |-> KnownVideo,
               body |-> "fits", mediaType |-> <<>>]
    /\ tloc = ZeroThumbLoc
    /\ tresp = <<>>

InitHandler == InitWith(MaxRequests)

RatioPending == [done |-> FALSE, result |-> <<>>, panic |-> FALSE]

Init ==
    /\ InitHandler
    /\ ratioIn = <<0, 0>>
    /\ ratioOut = RatioPending

Next ==
    \/ \E r \in Reqs : Begin(r)
    \/ \E r \in Reqs : Authenticate(r)
    \/ \E r \in Reqs : Lookup(r)
    \/ \E r \in Reqs : ParseForm(r)
    \/ \E r \in Reqs : Stage(r)
    \/ \E r \in Reqs : Probe(r)
    \/ \E r \in Reqs : Remux(r)
    \/ \E r \in Reqs : Open(r)
    \/ \E r \in Reqs : PutObject(r)
    \/ \E r \in Reqs : Update(r)
    \/ \E r \in Reqs : Answer(r)
    \/ \E r \in Reqs : Return(r)

Spec == Init /\ [][Next]_vars

(***************************************************************************)
(* handlerUploadThumbnail                                                  *)
(***************************************************************************)
port == "8091"

\* mimeCheckImage: TRUE when the error is nil
mimeCheckImage(mimeType) ==
    LET p == ParseMediaType(mimeType) IN
    IF p.err THEN FALSE
    ELSE p.m \in {<<"image", "/", "jpeg">>, <<"image", "/", "png">>}

ThumbMediaTypes == {
    <<"image", "/", "png">>,
    <<"image", "/", "jpeg">>,
    <<"text", "/", "html">>,
    <<>> }

ThumbRequests == [token : {"missing", "invalid"} \cup Users,
                  videoID : VideoIDs,
                  body : {"fits", "no-field"},
                  mediaType : ThumbMediaTypes]

\* filepath.Join(cfg.assetsRoot, assetPath)
AssetDiskPath(assetPath) == <<"assets/">> \o assetPath

\* a thumbnail upload arrives
ThumbBegin ==
    /\ tpc = "idle"
    /\ treq' \in ThumbRequests
    /\ tpc' = "auth"
    /\ UNCHANGED <<build, db, s3, disk, now, pc, req, loc, resp, trace,
                   removed, ratioIn, ratioOut, tloc, tresp>>

\* uuid.Parse, auth.GetBearerToken, auth.ValidateJWT
ThumbAuthenticate ==
    /\ tpc = "auth"
    /\ IF treq.videoID = "not-a-uuid"
       THEN /\ tresp' = Respond(tresp, 400, "error")
            /\ tpc' = "done"
            /\ tloc' = tloc
       ELSE IF treq.token \in {"missing", "invalid"}
       THEN /\ tresp' = Respond(tresp, 401, "error")
            /\ tpc' = "done"
            /\ tloc' = tloc
       ELSE /\ tloc' = [tloc EXCEPT !.userID = treq.token]
            /\ tpc' = "lookup"
            /\ tresp' = tresp
    /\ UNCHANGED <<build, db, s3, disk, now, pc, req, loc, resp, trace,
                   removed, ratioIn, ratioOut, treq>>

\* r.ParseMultipartForm, r.FormFile("thumbnail"), cfg.db.GetVideo, owner check
ThumbLookup ==
    /\ tpc = "lookup"
    /\ IF treq.body # "fits"
       THEN /\ tresp' = Respond(tresp, 400, "error")
            /\ tpc' = "done"
            /\ tloc' = tloc
       ELSE LET g == GetVideo(treq.videoID) IN
            IF g.err
            THEN /\ tresp' = Respond(tresp, 400, "error")
                 /\ tpc' = "done"
                 /\ tloc' = tloc
            ELSE IF g.video.UserID # tloc.userID
            THEN /\ tresp' = Respond(tresp, 401, "error")
                 /\ tpc' = "done"
                 /\ tloc' = [tloc EXCEPT !.video = g.video]
            ELSE /\ tresp' = tresp
                 /\ tpc' = "store"
                 /\ tloc' = [tloc EXCEPT !.video = g.video]
    /\ UNCHANGED <<build, db, s3, disk, now, pc, req, loc, resp, trace,
                   removed, ratioIn, ratioOut, treq>>

\* mimeCheckImage (its error branch does not return), mimeToExt, os.Create,
\* io.Copy (its error branch does not return)
ThumbStore ==
    /\ tpc = "store"
    /\ \E created \in BOOLEAN, copied \in BOOLEAN :
         LET w1 == IF mimeCheckImage(treq.mediaType) THEN tresp
                   ELSE Respond(tresp, 400, "error")
             assetPath == <<"thumb", ".">> \o mimeToExt(treq.mediaType)
         IN
         IF ~created
         THEN /\ copied
              /\ tresp' = Respond(w1, 500, "error")
              /\ tpc' = "done"
              /\ tloc' = [tloc EXCEPT !.mediaType = treq.mediaType,
                                      !.assetPath = assetPath]
              /\ disk' = disk
         ELSE /\ disk' = WriteFile(disk, AssetDiskPath(assetPath),
                                   IF copied THEN 1 ELSE 0)
              /\ tresp' = IF copied THEN w1 ELSE Respond(w1, 500, "error")
              /\ tloc' = [tloc EXCEPT !.mediaType = treq.mediaType,
                                      !.assetPath = assetPath,
                                      !.created = TRUE]
              /\ tpc' = "update"
    /\ UNCHANGED <<build, db, s3, now, pc, req, loc, resp, trace,
                   removed, ratioIn, ratioOut, treq>>

\* video.ThumbnailURL, video.UpdatedAt, cfg.db.UpdateVideo
ThumbUpdate ==
    /\ tpc = "update"
    /\ \E written \in BOOLEAN :
         LET video == [tloc.video EXCEPT
                          !.ThumbnailURL =
                              Ptr(<<"http://localhost:", port, "/assets/">>
                                  \o tloc.assetPath),
                          !.UpdatedAt = now]
         IN
         /\ tloc' = [tloc EXCEPT !.video = video]
         /\ now' = now + 1
         /\ IF written
            THEN /\ db' = UpdateVideo(video)
                 /\ tpc' = "respond"
                 /\ tresp' = tresp
            ELSE /\ db' = db
                 /\ tpc' = "done"
                 /\ tresp' = Respond(tresp, 500, "error")
    /\ UNCHANGED <<build, s3, disk, pc, req, loc, resp, trace,
                   removed, ratioIn, ratioOut, treq>>

\* cfg.db.GetVideo again, respondWithJSON
ThumbAnswer ==
    /\ tpc = "respond"
    /\ LET g == GetVideo(treq.videoID) IN
       IF g.err
       THEN /\ tresp' = Respond(tresp, 400, "error")
            /\ tloc' = tloc
       ELSE /\ tresp' = Respond(tresp, 200, g.video)
            /\ tloc' = [tloc EXCEPT !.video = g.video]
    /\ tpc' = "done"
    /\ UNCHANGED <<build, db, s3, disk, now, pc, req, loc, resp, trace,
                   removed, ratioIn, ratioOut, treq>>

(***************************************************************************)
(* Uploads of the owner running concurrently                               *)
(***************************************************************************)
MaxUploads == 2

OwnerUploads == [token : {"u1"},
                 videoID : {KnownVideo},
                 body : {"fits"},
                 mediaType : {<<"video", "/", "mp4">>}]

\* a request of the owner arrives while others are in flight
BeginUpload(r) ==
    /\ pc[r] = "idle"
    /\ \E q \in OwnerUploads : req' = [req EXCEPT ![r] = q]
    /\ pc' = [pc EXCEPT ![r] = "auth"]
    /\ UNCHANGED <<build, db, s3, disk, now, loc, resp, trace, removed,
                   ratioIn, ratioOut, thumbVars>>

\* the environment of the concurrent runs: staging, probing and remuxing
\* succeed, so every upload reaches the store; the store and the database
\* may still fail
QuietStaging ==
    \A r \in Reqs :
        /\ ~loc[r].panicked
        /\ \A i \in 1..Len(trace[r]) :
              trace[r][i].stage \in {"copy", "probe", "remux"} => trace[r][i].ok

InitConc ==
    /\ InitWith(MaxUploads)
    /\ ratioIn = <<0, 0>>
    /\ ratioOut = RatioPending

NextConc ==
    \/ \E r \in Reqs : BeginUpload(r)
    \/ \E r \in Reqs : Authenticate(r)
    \/ \E r \in Reqs : Lookup(r)
    \/ \E r \in Reqs : ParseForm(r)
    \/ \E r \in Reqs : Stage(r) /\ QuietStaging'
    \/ \E r \in Reqs : Probe(r) /\ QuietStaging'
    \/ \E r \in Reqs : Remux(r) /\ QuietStaging'
    \/ \E r \in Reqs : Open(r)
    \/ \E r \in Reqs : PutObject(r)
    \/ \E r \in Reqs : Update(r)
    \/ \E r \in Reqs : Answer(r)
    \/ \E r \in Reqs : Return(r)

SpecConc == InitConc /\ [][NextConc]_vars

\* one video upload of the owner and one thumbnail upload, interleaved
InitThumb ==
    /\ InitWith(1)
    /\ ratioIn = <<0, 0>>
    /\ ratioOut = RatioPending

NextThumb ==
    \/ \E r \in Reqs : BeginUpload(r)
    \/ \E r \in Reqs : Authenticate(r)
    \/ \E r \in Reqs : Lookup(r)
    \/ \E r \in Reqs : ParseForm(r)
    \/ \E r \in Reqs : Stage(r)
    \/ \E r \in Reqs : Probe(r)
    \/ \E r \in Reqs : Remux(r)
    \/ \E r \in Reqs : Open(r)
    \/ \E r \in Reqs : PutObject(r)
    \/ \E r \in Reqs : Update(r)
    \/ \E r \in Reqs : Answer(r)
    \/ \E r \in Reqs : Return(r)
    \/ ThumbBegin
    \/ ThumbAuthenticate
    \/ ThumbLookup
    \/ ThumbStore
    \/ ThumbUpdate
    \/ ThumbAnswer

SpecThumb == InitThumb /\ [][NextThumb]_vars

(***************************************************************************)
(* getVideoAspectRatio on its own, over a grid of stream geometries        *)
(***************************************************************************)
ExampleDims == {450, 500, 791, 809, 1000, 1080, 1920}
Dims == (0..MaxDim) \cup ExampleDims

InitRatio ==
    /\ InitHandler
    /\ build = "faststart"
    /\ db[KnownVideo].VideoURL.nil
    /\ ratioIn \in Dims \X Dims
    /\ ratioOut = RatioPending

Classify ==
    /\ ~ratioOut.done
    /\ LET a == getVideoAspectRatio(
                    [kind |-> "ok",
                     streams |-> <<[Width |-> ratioIn[1],
                                    Height |-> ratioIn[2]]>>])
       IN ratioOut' = [done |-> TRUE, result |-> a.result, panic |-> a.panic]
    /\ UNCHANGED <<build, db, s3, disk, now, pc, req, loc, resp, trace,
                   removed, ratioIn, thumbVars>>

NextRatio == Classify

SpecRatio == InitRatio /\ [][NextRatio]_vars

(***************************************************************************)
(* Properties                                                              *)
(***************************************************************************)
Succeeded(r, stage) ==
    \E i \in 1..Len(trace[r]) : trace[r][i].stage = stage /\ trace[r][i].ok
Failed(r, stage) ==
    \E i \in 1..Len(trace[r]) : trace[r][i].stage = stage /\ ~trace[r][i].ok
WorkFile(r) == TempName(r) \o <<".processing">>
Status(r) == [i \in 1..Len(resp[r]) |-> resp[r][i].status]

\* the request got past authentication, ownership and the multipart parse
Admitted(r) ==
    /\ req[r].token \in Users
    /\ req[r].videoID \in DOMAIN db
    /\ db[req[r].videoID].UserID = req[r].token
    /\ req[r].body = "fits"

\* C1: a step changes a stored video row only when it is the metadata write
\* of a request whose PutObject has succeeded; the row then carries the
\* locator of that request's key and the object under that key is in the
\* store.  A request whose put failed or was never reached changes no row.
C1_LocatorOnlyAfterPut ==
    [][\A v \in DOMAIN db :
          db'[v] # db[v] =>
             \E r \in Reqs :
                /\ pc[r] = "update" /\ pc'[r] # "update"
                /\ Succeeded(r, "put")
                /\ loc[r].video.ID = v
                /\ db'[v].VideoURL = Ptr(NewURL(loc[r].fileKey))
                /\ \E o \in s3 : o.Bucket = s3Bucket /\ o.Key = loc[r].fileKey]_vars

\* a request has stored its locator after its put
C1_Witness ==
    \E r \in Reqs :
        /\ Succeeded(r, "put") /\ Succeeded(r, "update")
        /\ db[KnownVideo].VideoURL = Ptr(NewURL(loc[r].fileKey))

\* C2: once an upload request has returned, no remuxed file of that request
\* remains on disk.
C2_NoRemuxedFileLeft ==
    \A r \in Reqs : pc[r] = "done" => ~Exists(disk, WorkFile(r))

\* C3: a request that created its staged file removes it exactly once: the
\* file is never removed twice, and when the request has finished, by return
\* or by a fault, it has been removed once and is not on disk.
C3_StagedRemovedOnce ==
    \A r \in Reqs :
        /\ removed[r] <= 1
        /\ (pc[r] = "done" /\ ~loc[r].tempFile.nil) =>
               /\ removed[r] = 1
               /\ ~Exists(disk, TempName(r))

\* a finished request whose staged file existed and whose pipeline failed
\* after staging
C3_Witness ==
    \E r \in Reqs :
        /\ pc[r] = "done" /\ ~loc[r].tempFile.nil /\ removed[r] = 1
        /\ Failed(r, "put")

\* C4: a failed stage is the last stage of its request: no stage runs after
\* a stage that failed.
C4_FailureIsTerminal ==
    \A r \in Reqs :
        \A i \in 1..Len(trace[r]) : ~trace[r][i].ok => i = Len(trace[r])

\* C5: a request of a valid principal that does not own the target row is
\* answered 401 only, and in no state of it is there a staged file, a stage
\* that ran, an object stored or a row written by it.
C5_NonOwnerRejectedFirst ==
    \A r \in Reqs :
        (/\ pc[r] # "idle"
         /\ req[r].token \in Users
         /\ req[r].videoID \in DOMAIN db
         /\ db[req[r].videoID].UserID # req[r].token) =>
            /\ loc[r].tempFile.nil
            /\ trace[r] = <<>>
            /\ ~Exists(disk, TempName(r)) /\ ~Exists(disk, WorkFile(r))
            /\ \A o \in s3 : o.Key # loc[r].fileKey
            /\ pc[r] \in {"auth", "lookup", "return", "done"}
            /\ pc[r] \in {"return", "done"} =>
                   Status(r) = <<401>>

\* a finished request of a principal that is not the owner
C5_Witness ==
    \E r \in Reqs :
        /\ pc[r] = "done" /\ req[r].token = "u2"
        /\ req[r].videoID = KnownVideo
        /\ Status(r) = <<401>>

\* C6: a request of a valid principal for an id the store does not know is
\* answered 404.
C6_UnknownVideoNotFound ==
    \A r \in Reqs :
        (/\ pc[r] = "done"
         /\ req[r].token \in Users
         /\ req[r].videoID = "v2") =>
            /\ resp[r] # <<>>
            /\ resp[r][1].status = 404

\* the declared type parses and its type/subtype is exactly video/mp4
CanonicalMp4(mimeType) ==
    LET p == ParseMediaType(mimeType) IN
    ~p.err /\ p.m = <<"video", "/", "mp4">>

\* C7: a request whose declared type is not video/mp4 never has a staged or
\* remuxed file, runs no stage, stores no object and writes no row; once it
\* has got as far as the type check it is answered 400 only.
C7_UnsupportedTypeRejected ==
    \A r \in Reqs :
        (pc[r] # "idle" /\ ~CanonicalMp4(req[r].mediaType)) =>
            /\ loc[r].tempFile.nil
            /\ trace[r] = <<>>
            /\ ~Exists(disk, TempName(r)) /\ ~Exists(disk, WorkFile(r))
            /\ \A o \in s3 : o.ContentType # req[r].mediaType
            /\ pc[r] \notin {"stage", "probe", "remux", "open", "put",
                             "update", "respond"}
            /\ (Admitted(r) /\ pc[r] \in {"return", "done"}) =>
                   Status(r) = <<400>>

\* a finished, admitted request that declared video/webm
C7_Witness ==
    \E r \in Reqs :
        /\ pc[r] = "done" /\ Admitted(r)
        /\ req[r].mediaType = <<"video", "/", "webm">>
        /\ Status(r) = <<400>>

\* C8: the locator a request has stored decodes, in dbVideoToSignedVideo,
\* into exactly the bucket and the key of that request, without an error.
C8_LocatorRoundTrips ==
    \A r \in Reqs :
        Succeeded(r, "update") =>
            LET sv == dbVideoToSignedVideo(loc[r].video, TRUE) IN
            /\ ~sv.err
            /\ sv.parts = << <<s3Bucket>>, loc[r].fileKey >>

SlashCount(k) == Cardinality({i \in 1..Len(k) : k[i] = "/"})

\* C9: the key of an accepted upload is prefix/token.ext with one "/", the
\* extension is mp4, and the prefix is landscape for 16:9, portrait for
\* 9:16 and other for every other class, the empty class included.
C9_KeyForm ==
    \A r \in Reqs :
        loc[r].fileKey # <<>> =>
            /\ SlashCount(loc[r].fileKey) = 1
            /\ loc[r].fileKey =
                 << (CASE loc[r].aspectRatio = <<16, ":", 9>> -> "landscape"
                       [] loc[r].aspectRatio = <<9, ":", 16>> -> "portrait"
                       [] OTHER -> "other"),
                    "/", loc[r].randFileName, ".", "mp4" >>

CommonDivisors(a, b) ==
    {d \in 1..(IF a < b THEN a ELSE b) : a % d = 0 /\ b % d = 0}
Gcd(a, b) ==
    IF a = 0 THEN b
    ELSE IF b = 0 THEN a
    ELSE CHOOSE g \in CommonDivisors(a, b) :
             \A d \in CommonDivisors(a, b) : d <= g

\* C10: for a first stream of width w and height h >= 1 the class is 16:9
\* when |w/h - 16/9| < 0.02, else 9:16 when |w/h - 9/16| < 0.02, else the
\* fraction (w/g):(h/g) with g = gcd(w, h).
C10_Classification ==
    (ratioOut.done /\ ratioIn[2] >= 1) =>
        LET w == ratioIn[1]
            h == ratioIn[2]
            g == Gcd(w, h)
        IN  /\ ~ratioOut.panic
            /\ ratioOut.result =
                 IF 50 * Abs(9 * w - 16 * h) < 9 * h THEN <<16, ":", 9>>
                 ELSE IF 50 * Abs(16 * w - 9 * h) < 16 * h THEN <<9, ":", 16>>
                 ELSE <<w \div g, ":", h \div g>>

\* C11: every object a request has put is the non-empty output of that
\* request's successful remux; the staged file itself is never the body.
C11_OnlyRemuxedPublished ==
    \A o \in s3 \ {EarlierObject} :
        \E r \in Reqs :
            /\ o.Key = loc[r].fileKey
            /\ Succeeded(r, "remux")
            /\ loc[r].ffmpeg = [exit |-> 0, out |-> "data"]
            /\ o.Body = WorkFile(r)
            /\ o.Body # TempName(r)

AllStagesSucceeded(r) ==
    /\ Succeeded(r, "update")
    /\ \A i \in 1..Len(trace[r]) : trace[r][i].ok
SomeStageFailed(r) == \E i \in 1..Len(trace[r]) : ~trace[r][i].ok

\* C12: a finished request whose stages all succeeded has written one
\* response, 200 with the updated row carrying the signed URL of its key; a
\* finished request with a failed stage has written error responses only.
C12_ResponseMatchesOutcome ==
    \A r \in Reqs :
        pc[r] = "done" =>
            /\ AllStagesSucceeded(r) =>
                  /\ Len(resp[r]) = 1
                  /\ resp[r][1].status = 200
                  /\ build = "faststart"
                  /\ resp[r][1].body =
                        [loc[r].video EXCEPT !.VideoURL =
                            Ptr(generatePresignedURL(<<s3Bucket>>,
                                                     loc[r].fileKey))]
            /\ SomeStageFailed(r) =>
                  /\ resp[r] # <<>>
                  /\ \A i \in 1..Len(resp[r]) : resp[r][i].status >= 400

\* the request carries the token of the owner of a stored video
OwnerAsks(r) ==
    /\ req[r].token \in Users
    /\ req[r].videoID \in DOMAIN db
    /\ db[req[r].videoID].UserID = req[r].token

\* C13: a request whose body exceeds the byte bound never has a staged or
\* remuxed file, runs no stage, stores no object and writes no row; once it
\* has returned (its id being a UUID) it has written one response, an
\* error, which is 500 when the request was otherwise admissible.
C13_OversizeRejected ==
    \A r \in Reqs :
        (pc[r] # "idle" /\ req[r].body = "too-large") =>
            /\ loc[r].tempFile.nil
            /\ trace[r] = <<>>
            /\ ~Exists(disk, TempName(r)) /\ ~Exists(disk, WorkFile(r))
            /\ loc[r].fileKey = <<>>
            /\ pc[r] \notin {"stage", "probe", "remux", "open", "put",
                             "update", "respond"}
            /\ (pc[r] \in {"return", "done"}
                   /\ req[r].videoID # "not-a-uuid") =>
                   /\ Len(resp[r]) = 1
                   /\ resp[r][1].status >= 400
            /\ (OwnerAsks(r) /\ pc[r] \in {"return", "done"}) =>
                   Status(r) = <<500>>

\* a finished, otherwise admissible request with an oversize body
C13_Witness ==
    \E r \in Reqs :
        /\ pc[r] = "done" /\ OwnerAsks(r) /\ req[r].body = "too-large"
        /\ mimeCheckVideo(req[r].mediaType)
        /\ Status(r) = <<500>>

\* C15: after processVideoForFastStart has run for a request: if ffmpeg
\* exited non-zero, left no output or left an empty output, it returned an
\* error and no path and no work file is on disk; otherwise it returned the
\* work file's path and that file is on disk with non-zero size.
C15_RemuxOutcome ==
    \A r \in Reqs :
        (\E i \in 1..Len(trace[r]) : trace[r][i].stage = "remux") =>
            IF loc[r].ffmpeg.exit # 0 \/ loc[r].ffmpeg.out # "data"
            THEN /\ Failed(r, "remux")
                 /\ loc[r].fsVideo = <<>>
                 /\ ~Exists(disk, WorkFile(r))
            ELSE /\ Succeeded(r, "remux")
                 /\ loc[r].fsVideo = WorkFile(r)
                 /\ Exists(disk, WorkFile(r))
                 /\ SizeOf(disk, WorkFile(r)) > 0

\* ffmpeg exited zero and left an empty file; the remux was refused
C15_Witness ==
    \E r \in Reqs :
        /\ loc[r].ffmpeg = [exit |-> 0, out |-> "empty"]
        /\ Failed(r, "remux")
        /\ pc[r] = "done"

\* C18: for a probe output with a first stream of any width and height >= 0
\* getVideoAspectRatio returns a class without a runtime fault.
C18_NoFault ==
    ratioOut.done => (~ratioOut.panic /\ ratioOut.result # <<>>)

\* the locator the record held before the first modelled request
InitialLocator ==
    IF EarlierObject \in s3 THEN Ptr(NewURL(EarlierKey)) ELSE Nil
Writers == {r \in Reqs : Succeeded(r, "update")}
Publishers == {r \in Reqs : Succeeded(r, "put")}
\* the request whose successful metadata write is the most recent one
LastWriter ==
    CHOOSE r \in Writers :
        \A q \in Writers : loc[q].video.UpdatedAt <= loc[r].video.UpdatedAt

C16_WriteKeepsOtherFields ==
    [][\A r \in Reqs :
          (pc[r] = "update" /\ pc'[r] # "update" /\ db' # db) =>
              /\ db'[KnownVideo].ThumbnailURL = db[KnownVideo].ThumbnailURL
              /\ db'[KnownVideo].UserID = db[KnownVideo].UserID
              /\ db'[KnownVideo].ID = db[KnownVideo].ID]_vars

\* C17: a finished upload request, video or thumbnail, has written exactly
\* one response.
C17_ExactlyOneResponse ==
    /\ \A r \in Reqs : pc[r] = "done" => Len(resp[r]) = 1
    /\ tpc = "done" => Len(tresp) = 1

\* C19: a thumbnail upload whose declared type is neither image/jpeg nor
\* image/png leaves no file under the assets root and the record keeps the
\* thumbnail URL it had.
C19_UnsupportedThumbnailInert ==
    (tpc # "idle" /\ ~mimeCheckImage(treq.mediaType)) =>
        /\ \A f \in disk : f.name[1] # "assets/"
        /\ db[KnownVideo].ThumbnailURL = Nil

====
